---------------------------- MODULE Spec2Model ----------------------------
(***************************************************************************)
(* Precision Audio Generator (src/app.py): one run of the Streamlit script *)
(* from the widget reads to the download buttons, and the pure helpers it  *)
(* uses.                                                                   *)
(*                                                                         *)
(* Numbers.  A Python float that holds a frequency is an integer count of  *)
(* Unit-ths of a hertz (Unit = 10^MaxDepth), so 10**-i is exact for every  *)
(* modelled depth.  A waveform sample is an integer count of Scale-ths,    *)
(* the value 1.0 being Scale.  A text is a sequence of one-character       *)
(* strings.                                                                *)
(*                                                                         *)
(* Buffers.  A waveform of sampleCount samples is kept at WinLen of its    *)
(* sample instants, t = 0, 1/WinDiv, 2/WinDiv, ... seconds; WinDiv divides *)
(* every selectable sample rate, so these are instants of every grid, and  *)
(* the duration is at least one second.  The sample count itself is kept   *)
(* exactly.                                                                *)
(***************************************************************************)
EXTENDS Integers, Sequences, FiniteSets, TLC

\* Depths the model draws from the "Precision Depth" slider: 1..MaxDepth.
MaxDepth == 3
\* Sample instants kept of every waveform buffer.
WinLen == 4
\* Fixed-point resolution of a waveform sample: 1.0 is Scale.
Scale == 10000

\* The slider's upper end, st.slider("Precision Depth (10^-x)", 1, 15, 5).
MaxDecimals == 15
\* The fractional digits of f"{off:.15f}".
FmtDigits == 15
\* The 16-bit PCM full scale, (final * 32767).
PcmMax == 32767

RECURSIVE Pow10(_)
Pow10(n) == IF n = 0 THEN 1 ELSE 10 * Pow10(n - 1)

\* Frequency units per hertz.
Unit == Pow10(MaxDepth)
\* Window instants per second; 12 divides 44100, 48000, 88200 and 96000.
WinDiv == 3 * 4
\* The result of 0.0 / 0.0, kept apart from every sample value.
NaN == -(Scale * Scale)

Abs(x) == IF x < 0 THEN -x ELSE x
\* C-style (and IEEE float to int) division: the quotient truncated toward zero.
TruncDiv(a, b) == IF a >= 0 THEN a \div b ELSE -((-a) \div b)

\* ------------------------------------------------------------------ texts

DigitChars == <<"0", "1", "2", "3", "4", "5", "6", "7", "8", "9">>
IsDigit(c) == c \in {"0", "1", "2", "3", "4", "5", "6", "7", "8", "9"}
DigitVal(c) == CHOOSE d \in 0..9 : DigitChars[d + 1] = c

\* str(n) of a non-negative int.
RECURSIVE Digits(_)
Digits(n) == IF n < 10 THEN <<DigitChars[n + 1]>>
             ELSE Digits(n \div 10) \o <<DigitChars[(n % 10) + 1]>>

\* int(s) of a digit text; the empty text counts 0.
RECURSIVE IntOf(_)
IntOf(s) == IF s = <<>> THEN 0
            ELSE 10 * IntOf(SubSeq(s, 1, Len(s) - 1)) + DigitVal(s[Len(s)])

Zeros(n) == [k \in 1..n |-> "0"]
PadLeft(s, n) == IF Len(s) >= n THEN s ELSE Zeros(n - Len(s)) \o s
PadRight(s, n) == IF Len(s) >= n THEN s ELSE s \o Zeros(n - Len(s))

\* str.rstrip(c): every trailing c removed.
RECURSIVE RStrip(_, _)
RStrip(s, c) == IF s # <<>> /\ s[Len(s)] = c
                THEN RStrip(SubSeq(s, 1, Len(s) - 1), c) ELSE s

\* str.strip() for the blank.
RECURSIVE LStrip(_, _)
LStrip(s, c) == IF s # <<>> /\ s[1] = c THEN LStrip(Tail(s), c) ELSE s
Strip(s) == RStrip(LStrip(s, " "), " ")

\* str.split(","): the pieces between the commas, the empty ones kept.
RECURSIVE Split(_)
Split(s) ==
    IF \A k \in DOMAIN s : s[k] # "," THEN <<s>>
    ELSE LET p == CHOOSE k \in DOMAIN s : s[k] = "," /\ \A m \in 1..(k - 1) : s[m] # ","
         IN  <<SubSeq(s, 1, p - 1)>> \o Split(SubSeq(s, p + 1, Len(s)))

\* float(tok) accepts tok: an optional sign, then digits with at most one point
\* and at least one digit.  (Python also takes exponents, underscores, inf and
\* nan; the modelled alphabet has none of them.)
FloatBody(tok) == IF tok # <<>> /\ tok[1] \in {"-", "+"} THEN Tail(tok) ELSE tok
FloatOk(tok) ==
    LET b == FloatBody(tok)
    IN  /\ \A k \in DOMAIN b : IsDigit(b[k]) \/ b[k] = "."
        /\ Cardinality({k \in DOMAIN b : b[k] = "."}) <= 1
        /\ \E k \in DOMAIN b : IsDigit(b[k])
\* float(tok) of an accepted token, in frequency units; digits past MaxDepth
\* are below the model's resolution and dropped.
FloatOf(tok) ==
    LET b == FloatBody(tok)
        dots == {k \in DOMAIN b : b[k] = "."}
        p == IF dots = {} THEN Len(b) + 1 ELSE CHOOSE k \in dots : TRUE
        whole == SubSeq(b, 1, p - 1)
        frac == SubSeq(PadRight(SubSeq(b, p + 1, Len(b)), MaxDepth), 1, MaxDepth)
        mag == IntOf(whole) * Unit + IntOf(frac)
    IN  IF tok[1] = "-" THEN -mag ELSE mag

\* [... for x in raw_ints.split(",") if x.strip()]: the tokens that are parsed.
Tokens(raw) == SelectSeq([k \in DOMAIN Split(raw) |-> Strip(Split(raw)[k])],
                         LAMBDA tok : tok # <<>>)
ParseOk(raw) == \A k \in DOMAIN Tokens(raw) : FloatOk(Tokens(raw)[k])
\* offsets2 = [float(x.strip()) for x in raw_ints.split(",") if x.strip()]
ParseOffsets(raw) == [k \in DOMAIN Tokens(raw) |-> FloatOf(Tokens(raw)[k])]

\* The series started one power early, range(decimals) for range(1, decimals + 1).
GeometricOffsets_FromZero(d) == [k \in 1..d |-> Unit \div Pow10(k - 1)]

\* offsets1 = [10**-i for i in range(1, decimals + 1)]
GeometricOffsets(d) == [k \in 1..d |-> Unit \div Pow10(k)]

\* f"{x:.15f}": sign, whole digits, point, FmtDigits fractional digits.
Fixed15(x) ==
    (IF x < 0 THEN <<"-">> ELSE <<>>)
    \o Digits(Abs(x) \div Unit) \o <<".">>
    \o PadRight(PadLeft(Digits(Abs(x) % Unit), MaxDepth), FmtDigits)

\* The two strips in the other order: .rstrip('.').rstrip('0').
CleanOff_PointFirst(x) == RStrip(RStrip(Fixed15(x), "."), "0")

\* clean_off = f"{off:.15f}".rstrip('0').rstrip('.')
CleanOff(x) == RStrip(RStrip(Fixed15(x), "0"), ".")

\* The base frequency printed as an int when it is whole, as f"{base_freq:g}" does.
FloatRepr_General(x) ==
    LET frac == RStrip(PadLeft(Digits(Abs(x) % Unit), MaxDepth), "0")
    IN  (IF x < 0 THEN <<"-">> ELSE <<>>)
        \o Digits(Abs(x) \div Unit)
        \o (IF frac = <<>> THEN <<>> ELSE <<".">> \o frac)

\* str(x) of a float (f"{base_freq}"): the shortest digits, never without a
\* fractional digit.
FloatRepr(x) ==
    LET frac == RStrip(PadLeft(Digits(Abs(x) % Unit), MaxDepth), "0")
    IN  (IF x < 0 THEN <<"-">> ELSE <<>>)
        \o Digits(Abs(x) \div Unit) \o <<".">>
        \o (IF frac = <<>> THEN <<"0">> ELSE frac)

FormatChars(f) ==
    CASE f = "wav" -> <<"w", "a", "v">>
      [] f = "mp3" -> <<"m", "p", "3">>
      [] f = "flac" -> <<"f", "l", "a", "c">>
      [] f = "opus" -> <<"o", "p", "u", "s">>

\* fname = f"{i+1}_{base_freq}Hz_plus_{clean_off}Hz_{sample_rate}SR.{file_format}"
\* with seq the 1-based i+1.
FName(seq, base, off, rate, fmt) ==
    Digits(seq) \o <<"_">> \o FloatRepr(base)
    \o <<"H", "z", "_", "p", "l", "u", "s", "_">> \o CleanOff(off)
    \o <<"H", "z", "_">> \o Digits(rate) \o <<"S", "R", ".">> \o FormatChars(fmt)

\* ---------------------------------------------------------------- signals

\* Phase units per turn at the kept instants: the tone of frequency x is at
\* phase x * j / (WinDiv * Unit) turns at the instant j / WinDiv seconds.
TurnUnits == WinDiv * Unit
HalfTurn == TurnUnits \div 2

\* np.sin at phase n / TurnUnits turns, 0 <= n < TurnUnits, in Scale-ths:
\* Bhaskara's rational sine, 16 r (1 - r) / (5 - 4 r (1 - r)) on the half turn
\* r, which is odd, 0 at the whole half turns, at most 1 and within 0.002 of
\* the sine.
SinTurn(n) ==
    LET h == n % HalfTurn
        a == (h * (HalfTurn - h)) \div ((HalfTurn \div 200) * (HalfTurn \div 200))
        v == (16 * a * Scale) \div (200000 - 4 * a)
    IN  IF n >= HalfTurn THEN -v ELSE v

\* np.sin(2 * np.pi * freq * t) over the kept instants of the time grid t.
Tone(freq) ==
    [j \in 1..WinLen |-> SinTurn(((freq % TurnUnits) * (j - 1)) % TurnUnits)]

\* len(t) for t = np.linspace(0, duration, int(sample_rate * duration), ...).
SampleCount(rate, dur) == rate * dur

\* np.zeros_like(t)
ZerosLike == [j \in 1..WinLen |-> 0]

\* mixed += np.sin(2 * np.pi * (base_freq + off) * t)
AddTone(buf, base, off) ==
    LET s == Tone(base + off) IN [j \in DOMAIN buf |-> buf[j] + s[j]]

\* np.max(np.abs(buf))
RECURSIVE PeakAbs(_)
PeakAbs(buf) ==
    IF buf = <<>> THEN 0
    ELSE LET rest == PeakAbs(Tail(buf))
         IN  IF Abs(buf[1]) > rest THEN Abs(buf[1]) ELSE rest

\* mixed /= np.max(np.abs(mixed)); numpy divides 0.0 by 0.0 to nan and goes on.
Normalize(buf) ==
    LET peak == PeakAbs(buf)
    IN  [j \in DOMAIN buf |->
            IF peak = 0 THEN NaN ELSE TruncDiv(buf[j] * Scale, peak)]

\* np.vstack((a, b)).T: one row per sample, one column per channel.
VStackT(a, b) == [j \in DOMAIN a |-> <<a[j], b[j]>>]

\* The cast after np.round: the nearest integer, halves away from zero.
Quantize_Rounded(s, nanq) ==
    IF s = NaN THEN nanq ELSE TruncDiv(2 * s * PcmMax + (IF s < 0 THEN -Scale ELSE Scale), 2 * Scale)

\* One element of (final * 32767).astype(np.int16): the product's fraction is
\* dropped.  The cast of nan is undefined; nanq is what the build yields.
Quantize(s, nanq) == IF s = NaN THEN nanq ELSE TruncDiv(s * PcmMax, Scale)
NanCasts == {0, -PcmMax - 1}

AsInt16(frame, nanq) ==
    [j \in DOMAIN frame |-> [c \in DOMAIN frame[j] |-> Quantize(frame[j][c], nanq)]]

\* The include_ref test lost: the signal on both channels always.
SegmentFinal_DualMono(base, off, ref) ==
    LET sig == Tone(base + off) IN VStackT(sig, sig)

\* The stereo array of create_audio_segment before the cast.
SegmentFinal(base, off, ref) ==
    LET sig == Tone(base + off)
    IN  IF ref THEN VStackT(sig, Tone(base)) ELSE VStackT(sig, sig)

\* wavfile.write(wav_buf, sample_rate, audio_data): header and 16-bit frames.
WavWrite(rate, data, n) ==
    [fmt |-> "wav", rate |-> rate, channels |-> Len(data[1]), nframes |-> n,
     frames |-> data]
\* AudioSegment.from_wav(wav_buf)
FromWav(buf) ==
    [rate |-> buf.rate, channels |-> buf.channels, nframes |-> buf.nframes,
     frames |-> buf.frames]

CreateAudioSegment(base, off, rate, dur, ref, nanq) ==
    FromWav(WavWrite(rate, AsInt16(SegmentFinal(base, off, ref), nanq),
                     SampleCount(rate, dur)))

\* export_buffer(audio_segment, fmt) when the export succeeds.
ExportBuffer(seg, fmt) ==
    [fmt |-> fmt, rate |-> seg.rate, channels |-> seg.channels,
     nframes |-> seg.nframes, frames |-> seg.frames]
\* Whether audio_segment.export can raise: every format but wav is written by
\* an external encoder process.
ExportOutcomes(fmt) == IF fmt = "wav" THEN {TRUE} ELSE {TRUE, FALSE}

\* ------------------------------------------------------------- the script

VARIABLES
    pc,           \* where the script run stands
    base_freq, sample_rate, duration, gen_mode, file_format, include_ref,
    decimals, raw_ints, all_offsets,
    nsamples,     \* len(t)
    mixed, final, audio_data, segment, out_file,
    zip_file,     \* the entries written to the archive, in writing order
    i,            \* the loop index: offsets consumed so far
    err,          \* the exception that ended the run, "" when none
    shown,        \* what the page hands to the user: nothing, or one download
    generated,    \* the count of st.success, -1 when not shown
    added,        \* tones added to mixed in this run
    normalized,   \* peak divisions performed in this run
    quantized,    \* astype(np.int16) casts performed in this run
    fnOp, fnArg, fnCtx, fnText, fnNum   \* a helper applied on its own

scriptVars == <<pc, base_freq, sample_rate, duration, gen_mode, file_format,
                include_ref, decimals, raw_ints, all_offsets, nsamples, mixed,
                final, audio_data, segment, out_file, zip_file, i, err, shown,
                generated, added, normalized, quantized>>
fnVars == <<fnOp, fnArg, fnCtx, fnText, fnNum>>
vars == <<scriptVars, fnVars>>

Sweep == "Concurrent Sweep (Single File)"
Individual == "Individual Files (ZIP)"
GenModes == {Sweep, Individual}
SampleRates == {44100, 48000, 88200, 96000}
Formats == {"wav", "mp3", "flac", "opus"}
\* The slider's ends and its default.
Durations == {1, 60, 120}
\* Values typed into the number input: 0.5, 100.0, 440.0 (the default).
BaseFreqs == {Unit \div 2, 100 * Unit, 440 * Unit}
Depths == 1..(IF MaxDepth < MaxDecimals THEN MaxDepth ELSE MaxDecimals)
\* Texts typed into "Integer offsets (comma separated)".
RawInputs ==
    { <<>>,
      <<"1", ",", " ", "1", "0", ",", " ", "1", "0", "0">>,
      <<"1", ",", ",", "2">>,
      <<"1", ",", "x">>,
      <<"-", "2", "0", "0", ".", "1">>,
      <<"0", ".", "1", ",", "0", ".", "1">>,
      <<" ", ",", " ", "1", " ", ",">> }

ScriptInit ==
    /\ pc = "sidebar"
    /\ base_freq = 0 /\ sample_rate = 0 /\ duration = 0
    /\ gen_mode = "" /\ file_format = "" /\ include_ref = FALSE
    /\ decimals = 0 /\ raw_ints = <<>> /\ all_offsets = <<>>
    /\ nsamples = 0
    /\ mixed = <<>> /\ final = <<>> /\ audio_data = <<>>
    /\ segment = <<>> /\ out_file = <<>> /\ zip_file = <<>>
    /\ i = 0 /\ err = "" /\ shown = <<>> /\ generated = -1
    /\ added = 0 /\ normalized = 0 /\ quantized = 0

FnIdle ==
    /\ fnOp = "" /\ fnArg = 0 /\ fnCtx = <<>> /\ fnText = <<>> /\ fnNum = 0

Init == ScriptInit /\ FnIdle

\* with st.sidebar: the six widget reads.
Sidebar ==
    /\ pc = "sidebar"
    /\ \E b \in BaseFreqs, r \in SampleRates, d \in Durations,
          m \in GenModes, f \in Formats, ref \in BOOLEAN :
          /\ base_freq' = b
          /\ sample_rate' = r
          /\ duration' = d
          /\ gen_mode' = m
          /\ file_format' = f
          /\ include_ref' = ref
    /\ pc' = "offsets"
    /\ UNCHANGED <<decimals, raw_ints, all_offsets, nsamples, mixed, final,
                   audio_data, segment, out_file, zip_file, i, err, shown,
                   generated, added, normalized, quantized, fnVars>>

\* The tokens float() does not accept skipped instead of raising.
OffsetInputs_Lenient ==
    /\ pc = "offsets"
    /\ \E d \in Depths, raw \in RawInputs :
          /\ decimals' = d
          /\ raw_ints' = raw
          /\ all_offsets' = GeometricOffsets(d)
                \o [k \in DOMAIN SelectSeq(Tokens(raw), FloatOk) |->
                        FloatOf(SelectSeq(Tokens(raw), FloatOk)[k])]
          /\ pc' = "button"
    /\ UNCHANGED <<base_freq, sample_rate, duration, gen_mode, file_format,
                   include_ref, nsamples, mixed, final, audio_data, segment,
                   out_file, zip_file, i, err, shown, generated, added,
                   normalized, quantized, fnVars>>

\* The offset inputs: float() raises ValueError on a token it does not accept,
\* and the run ends there, before the button is read.
OffsetInputs ==
    /\ pc = "offsets"
    /\ \E d \in Depths, raw \in RawInputs :
          /\ decimals' = d
          /\ raw_ints' = raw
          /\ IF ParseOk(raw)
             THEN /\ all_offsets' = GeometricOffsets(d) \o ParseOffsets(raw)
                  /\ pc' = "button"
                  /\ err' = err
             ELSE /\ all_offsets' = all_offsets
                  /\ pc' = "error"
                  /\ err' = "ValueError"
    /\ UNCHANGED <<base_freq, sample_rate, duration, gen_mode, file_format,
                   include_ref, nsamples, mixed, final, audio_data, segment,
                   out_file, zip_file, i, shown, generated, added, normalized,
                   quantized, fnVars>>

\* if st.button("Generate Audio", type="primary"):
Button ==
    /\ pc = "button"
    /\ \E pressed \in BOOLEAN :
          pc' = IF ~pressed THEN "idle"
                ELSE IF gen_mode = Sweep THEN "sweep_grid" ELSE "zip_open"
    /\ UNCHANGED <<base_freq, sample_rate, duration, gen_mode, file_format,
                   include_ref, decimals, raw_ints, all_offsets, nsamples,
                   mixed, final, audio_data, segment, out_file, zip_file, i,
                   err, shown, generated, added, normalized, quantized, fnVars>>

\* t = np.linspace(...); mixed = np.zeros_like(t)
SweepGrid ==
    /\ pc = "sweep_grid"
    /\ nsamples' = SampleCount(sample_rate, duration)
    /\ mixed' = ZerosLike
    /\ i' = 0
    /\ pc' = "sweep_mix"
    /\ UNCHANGED <<base_freq, sample_rate, duration, gen_mode, file_format,
                   include_ref, decimals, raw_ints, all_offsets, final,
                   audio_data, segment, out_file, zip_file, err, shown,
                   generated, added, normalized, quantized, fnVars>>

\* The peak division indented into the loop body.
SweepMix_NormalizeEachPass ==
    /\ pc = "sweep_mix"
    /\ i < Len(all_offsets)
    /\ mixed' = Normalize(AddTone(mixed, base_freq, all_offsets[i + 1]))
    /\ i' = i + 1
    /\ added' = added + 1
    /\ normalized' = normalized + 1
    /\ UNCHANGED <<pc, base_freq, sample_rate, duration, gen_mode, file_format,
                   include_ref, decimals, raw_ints, all_offsets, nsamples,
                   final, audio_data, segment, out_file, zip_file, err, shown,
                   generated, quantized, fnVars>>

\* for off in all_offsets: mixed += np.sin(...), one pass of the loop.
SweepMix ==
    /\ pc = "sweep_mix"
    /\ i < Len(all_offsets)
    /\ mixed' = AddTone(mixed, base_freq, all_offsets[i + 1])
    /\ i' = i + 1
    /\ added' = added + 1
    /\ UNCHANGED <<pc, base_freq, sample_rate, duration, gen_mode, file_format,
                   include_ref, decimals, raw_ints, all_offsets, nsamples,
                   final, audio_data, segment, out_file, zip_file, err, shown,
                   generated, normalized, quantized, fnVars>>

\* mixed /= np.max(np.abs(mixed)), once the loop is over.
SweepNormalize ==
    /\ pc = "sweep_mix"
    /\ i = Len(all_offsets)
    /\ mixed' = Normalize(mixed)
    /\ normalized' = normalized + 1
    /\ pc' = "sweep_stack"
    /\ UNCHANGED <<base_freq, sample_rate, duration, gen_mode, file_format,
                   include_ref, decimals, raw_ints, all_offsets, nsamples,
                   final, audio_data, segment, out_file, zip_file, i, err,
                   shown, generated, added, quantized, fnVars>>

\* if include_ref: final = np.vstack((mixed, ref)).T  else: (mixed, mixed)
SweepStack ==
    /\ pc = "sweep_stack"
    /\ final' = IF include_ref THEN VStackT(mixed, Tone(base_freq))
                ELSE VStackT(mixed, mixed)
    /\ pc' = "sweep_cast"
    /\ UNCHANGED <<base_freq, sample_rate, duration, gen_mode, file_format,
                   include_ref, decimals, raw_ints, all_offsets, nsamples,
                   mixed, audio_data, segment, out_file, zip_file, i, err,
                   shown, generated, added, normalized, quantized, fnVars>>

\* audio_data = (final * 32767).astype(np.int16)
SweepCast ==
    /\ pc = "sweep_cast"
    /\ \E nanq \in NanCasts : audio_data' = AsInt16(final, nanq)
    /\ quantized' = quantized + 1
    /\ pc' = "sweep_export"
    /\ UNCHANGED <<base_freq, sample_rate, duration, gen_mode, file_format,
                   include_ref, decimals, raw_ints, all_offsets, nsamples,
                   mixed, final, segment, out_file, zip_file, i, err, shown,
                   generated, added, normalized, fnVars>>

\* wavfile.write, AudioSegment.from_wav, export_buffer; an export that raises
\* ends the run.
SweepExport ==
    /\ pc = "sweep_export"
    /\ segment' = <<FromWav(WavWrite(sample_rate, audio_data, nsamples))>>
    /\ \E ok \in ExportOutcomes(file_format) :
          IF ok
          THEN /\ out_file' = <<ExportBuffer(segment'[1], file_format)>>
               /\ pc' = "sweep_show"
               /\ err' = err
          ELSE /\ out_file' = out_file
               /\ pc' = "error"
               /\ err' = "EncodingError"
    /\ UNCHANGED <<base_freq, sample_rate, duration, gen_mode, file_format,
                   include_ref, decimals, raw_ints, all_offsets, nsamples,
                   mixed, final, audio_data, zip_file, i, shown, generated,
                   added, normalized, quantized, fnVars>>

\* f"sweep_{base_freq}Hz.{file_format}"
SweepName(base, fmt) ==
    <<"s", "w", "e", "e", "p", "_">> \o FloatRepr(base)
    \o <<"H", "z", ".">> \o FormatChars(fmt)

\* st.audio(out_file, ...); st.download_button(..., out_file, name)
SweepShow ==
    /\ pc = "sweep_show"
    /\ shown' = <<[kind |-> "audio", name |-> SweepName(base_freq, file_format),
                   body |-> out_file]>>
    /\ pc' = "done"
    /\ UNCHANGED <<base_freq, sample_rate, duration, gen_mode, file_format,
                   include_ref, decimals, raw_ints, all_offsets, nsamples,
                   mixed, final, audio_data, segment, out_file, zip_file, i,
                   err, generated, added, normalized, quantized, fnVars>>

\* zip_buffer = io.BytesIO(); with zipfile.ZipFile(zip_buffer, "w") as zip_file:
ZipOpen ==
    /\ pc = "zip_open"
    /\ zip_file' = <<>>
    /\ i' = 0
    /\ pc' = "zip_loop"
    /\ UNCHANGED <<base_freq, sample_rate, duration, gen_mode, file_format,
                   include_ref, decimals, raw_ints, all_offsets, nsamples,
                   mixed, final, audio_data, segment, out_file, err, shown,
                   generated, added, normalized, quantized, fnVars>>

\* segment = create_audio_segment(base_freq, off, sample_rate, duration, include_ref)
ZipSegment ==
    /\ pc = "zip_loop"
    /\ i < Len(all_offsets)
    /\ nsamples' = SampleCount(sample_rate, duration)
    /\ final' = SegmentFinal(base_freq, all_offsets[i + 1], include_ref)
    /\ \E nanq \in NanCasts :
          /\ segment' = <<CreateAudioSegment(base_freq, all_offsets[i + 1],
                                             sample_rate, duration, include_ref, nanq)>>
          /\ audio_data' = segment'[1].frames
    /\ quantized' = quantized + 1
    /\ pc' = "zip_export"
    /\ UNCHANGED <<base_freq, sample_rate, duration, gen_mode, file_format,
                   include_ref, decimals, raw_ints, all_offsets, mixed,
                   out_file, zip_file, i, err, shown, generated, added,
                   normalized, fnVars>>

\* The entry named with the 0-based loop index, {i} for {i+1}.
ZipExport_ZeroBased ==
    /\ pc = "zip_export"
    /\ \E ok \in ExportOutcomes(file_format) :
          IF ok
          THEN /\ zip_file' = Append(zip_file,
                     [name |-> FName(i, base_freq, all_offsets[i + 1],
                                     sample_rate, file_format),
                      data |-> ExportBuffer(segment[1], file_format)])
               /\ i' = i + 1
               /\ pc' = "zip_loop"
               /\ err' = err
          ELSE /\ zip_file' = zip_file
               /\ i' = i
               /\ pc' = "error"
               /\ err' = "EncodingError"
    /\ UNCHANGED <<base_freq, sample_rate, duration, gen_mode, file_format,
                   include_ref, decimals, raw_ints, all_offsets, nsamples,
                   mixed, final, audio_data, segment, out_file, shown,
                   generated, added, normalized, quantized, fnVars>>

\* The export wrapped in try/except inside the loop: a failed unit is skipped
\* and the batch goes on.
ZipExport_SkipFailed ==
    /\ pc = "zip_export"
    /\ \E ok \in ExportOutcomes(file_format) :
          IF ok
          THEN /\ zip_file' = Append(zip_file,
                     [name |-> FName(i + 1, base_freq, all_offsets[i + 1],
                                     sample_rate, file_format),
                      data |-> ExportBuffer(segment[1], file_format)])
               /\ err' = err
          ELSE /\ zip_file' = zip_file
               /\ err' = "EncodingError"
    /\ i' = i + 1
    /\ pc' = "zip_loop"
    /\ UNCHANGED <<base_freq, sample_rate, duration, gen_mode, file_format,
                   include_ref, decimals, raw_ints, all_offsets, nsamples,
                   mixed, final, audio_data, segment, out_file, shown,
                   generated, added, normalized, quantized, fnVars>>

\* buf = export_buffer(segment, file_format); clean_off; fname;
\* zip_file.writestr(fname, buf.getvalue()).  An export that raises leaves the
\* with block and ends the run.
ZipExport ==
    /\ pc = "zip_export"
    /\ \E ok \in ExportOutcomes(file_format) :
          IF ok
          THEN /\ zip_file' = Append(zip_file,
                     [name |-> FName(i + 1, base_freq, all_offsets[i + 1],
                                     sample_rate, file_format),
                      data |-> ExportBuffer(segment[1], file_format)])
               /\ i' = i + 1
               /\ pc' = "zip_loop"
               /\ err' = err
          ELSE /\ zip_file' = zip_file
               /\ i' = i
               /\ pc' = "error"
               /\ err' = "EncodingError"
    /\ UNCHANGED <<base_freq, sample_rate, duration, gen_mode, file_format,
                   include_ref, decimals, raw_ints, all_offsets, nsamples,
                   mixed, final, audio_data, segment, out_file, shown,
                   generated, added, normalized, quantized, fnVars>>

ZipName == <<"a", "u", "d", "i", "o", "_", "b", "a", "t", "c", "h", ".", "z", "i", "p">>

\* st.success(f"Generated {len(all_offsets)} files!"); st.download_button(...)
ZipShow ==
    /\ pc = "zip_loop"
    /\ i = Len(all_offsets)
    /\ generated' = Len(all_offsets)
    /\ shown' = <<[kind |-> "zip", name |-> ZipName, body |-> zip_file]>>
    /\ pc' = "done"
    /\ UNCHANGED <<base_freq, sample_rate, duration, gen_mode, file_format,
                   include_ref, decimals, raw_ints, all_offsets, nsamples,
                   mixed, final, audio_data, segment, out_file, zip_file, i,
                   err, added, normalized, quantized, fnVars>>

Next ==
    \/ Sidebar \/ OffsetInputs \/ Button
    \/ SweepGrid \/ SweepMix \/ SweepNormalize \/ SweepStack \/ SweepCast
    \/ SweepExport \/ SweepShow
    \/ ZipOpen \/ ZipSegment \/ ZipExport \/ ZipShow

Spec == Init /\ [][Next]_vars

\* ------------------------------------------------- the helpers on their own

\* Offsets and samples the helpers are applied to: every value of -1.0 .. 1.0
\* in Scale-ths as a sample, the same integers as offsets in Unit-ths of a
\* hertz, and some larger offsets.
FnArgs == (-Scale..Scale) \cup {100 * Unit, 101 * Unit, 120 * Unit, -200 * Unit - (Unit \div 10)}
\* The offsets file names are built for.
NameArgs == {0, Unit \div 10, Unit \div 100, Unit, 10 * Unit, 100 * Unit}
SeqNos == 1..(MaxDepth + 3)

InitFn ==
    /\ ScriptInit
    /\ fnOp = "" /\ fnArg \in FnArgs /\ fnCtx = <<>> /\ fnText = <<>> /\ fnNum = 0

\* clean_off = f"{off:.15f}".rstrip('0').rstrip('.')
FnCleanOff ==
    /\ fnOp = ""
    /\ fnText' = CleanOff(fnArg)
    /\ fnOp' = "clean_off"
    /\ UNCHANGED <<scriptVars, fnArg, fnCtx, fnNum>>

\* (x * 32767).astype(np.int16) of one sample in [-1, 1]
FnQuantize ==
    /\ fnOp = ""
    /\ fnArg \in -Scale..Scale
    /\ \E nanq \in NanCasts : fnNum' = Quantize(fnArg, nanq)
    /\ fnOp' = "quantize"
    /\ UNCHANGED <<scriptVars, fnArg, fnCtx, fnText>>

\* fname = f"{i+1}_{base_freq}Hz_plus_{clean_off}Hz_{sample_rate}SR.{file_format}"
FnName ==
    /\ fnOp = ""
    /\ fnArg \in NameArgs
    /\ \E n \in SeqNos, b \in BaseFreqs, r \in SampleRates, f \in Formats :
          /\ fnCtx' = <<[seq |-> n, base |-> b, rate |-> r, fmt |-> f]>>
          /\ fnText' = FName(n, b, fnArg, r, f)
    /\ fnOp' = "fname"
    /\ UNCHANGED <<scriptVars, fnArg, fnNum>>

NextFn == FnCleanOff \/ FnQuantize \/ FnName

SpecFn == InitFn /\ [][NextFn]_vars

\* -------------------------------------------------------------- properties

Column(frame, c) == [j \in DOMAIN frame |-> frame[j][c]]
HasRepeat(seq) == \E k, m \in DOMAIN seq : k # m /\ seq[k] = seq[m]
IsPrefix(a, b) == Len(a) <= Len(b) /\ SubSeq(b, 1, Len(a)) = a
IsSuffix(a, b) == Len(a) <= Len(b) /\ SubSeq(b, Len(b) - Len(a) + 1, Len(b)) = a
\* The offset list exists: the run is past the offset inputs and float() did
\* not raise.
OffsetsBuilt == pc \notin {"sidebar", "offsets"} /\ err # "ValueError"
\* In individual mode, the 1-based number of the unit built last.
LastUnit == IF pc \in {"zip_export", "error"} THEN i + 1 ELSE i

\* C1: in individual mode the k-th archive entry written is the one made from
\* the k-th offset and its name starts with the sequence number k, so names
\* are pairwise distinct also under repeated offsets; a delivered archive has
\* exactly len(all_offsets) entries, the count reported to the user.
C1_ArchiveFollowsOffsets ==
    gen_mode = Individual =>
        /\ Len(zip_file) <= Len(all_offsets)
        /\ \A k \in DOMAIN zip_file :
              /\ IsPrefix(Digits(k) \o <<"_">>, zip_file[k].name)
              /\ \E nanq \in NanCasts :
                    zip_file[k].data.frames =
                        AsInt16(SegmentFinal(base_freq, all_offsets[k], include_ref), nanq)
        /\ \A k, m \in DOMAIN zip_file : k # m => zip_file[k].name # zip_file[m].name
        /\ shown # <<>> =>
              /\ shown[1].body = zip_file
              /\ Len(shown[1].body) = Len(all_offsets)
              /\ generated = Len(shown[1].body)

C1_Witness ==
    /\ pc = "done" /\ gen_mode = Individual /\ shown # <<>>
    /\ Len(zip_file) >= 3 /\ HasRepeat(all_offsets)

\* The values the spec's examples give for the literal lists.
ExpectedLiterals(raw) ==
    CASE raw = <<>> -> <<>>
      [] raw = <<"1", ",", " ", "1", "0", ",", " ", "1", "0", "0">> ->
            <<Unit, 10 * Unit, 100 * Unit>>
      [] raw = <<"1", ",", ",", "2">> -> <<Unit, 2 * Unit>>
      [] raw = <<"-", "2", "0", "0", ".", "1">> -> <<-(200 * Unit + Unit \div 10)>>
      [] raw = <<"0", ".", "1", ",", "0", ".", "1">> -> <<Unit \div 10, Unit \div 10>>
      [] raw = <<" ", ",", " ", "1", " ", ",">> -> <<Unit>>
\* The comma-separated pieces of raw that hold something but blanks, counted
\* by where they start: after position p, a comma or the start of the text.
NonEmptyPieces(raw) ==
    Cardinality({p \in {0} \cup {k \in DOMAIN raw : raw[k] = ","} :
        \E q \in (p + 1)..Len(raw) :
            /\ raw[q] \notin {" ", ","}
            /\ \A m \in (p + 1)..q : raw[m] # ","})

\* C2: the offset list is 10^-1 .. 10^-depth followed by the values of the
\* non-empty trimmed tokens in input order; its length is depth plus the
\* number of non-empty tokens; nothing is dropped as a duplicate or reordered.
C2_OffsetsAreSeriesThenLiterals ==
    OffsetsBuilt =>
        /\ Len(all_offsets) = decimals + NonEmptyPieces(raw_ints)
        /\ \A k \in 1..decimals : all_offsets[k] * Pow10(k) = Unit
        /\ SubSeq(all_offsets, decimals + 1, Len(all_offsets)) = ExpectedLiterals(raw_ints)

C2_Witness ==
    /\ pc = "button" /\ decimals = 3
    /\ raw_ints = <<"0", ".", "1", ",", "0", ".", "1">>
    /\ all_offsets = <<Unit \div 10, Unit \div 100, Unit \div 1000, Unit \div 10, Unit \div 10>>

\* A token is numeric: an optional sign, digits, and at most one point among
\* them, with at least one digit.
NumericToken(tok) ==
    \E sgn \in 0..1, p \in 0..Len(tok) :
        /\ sgn <= p
        /\ sgn = 1 => tok[1] \in {"+", "-"}
        /\ \A k \in (sgn + 1)..p : IsDigit(tok[k])
        /\ \/ p = Len(tok) /\ p > sgn
           \/ /\ p < Len(tok) /\ tok[p + 1] = "."
              /\ \A k \in (p + 2)..Len(tok) : IsDigit(tok[k])
              /\ Len(tok) - 1 > sgn
HasNonNumericToken(raw) ==
    \E k \in DOMAIN Split(raw) :
        Strip(Split(raw)[k]) # <<>> /\ ~NumericToken(Strip(Split(raw)[k]))

C4_DegenerateMixRejected ==
    [][(pc = "sweep_mix" /\ i = Len(all_offsets) /\ PeakAbs(mixed) = 0) =>
            /\ pc' = "error" /\ err' = "DegenerateSignalError"
            /\ normalized' = normalized /\ quantized' = quantized
            /\ shown' = <<>>]_vars

\* C5: in individual mode the first unit that fails ends the batch: the units
\* after it are not built, the error is the run's result and neither an
\* archive nor a success count is handed over; an archive is handed over only
\* with an entry for every offset.
C5_FailFast ==
    gen_mode = Individual =>
        /\ err = "EncodingError" =>
              /\ pc = "error"
              /\ shown = <<>> /\ generated = -1
              /\ Len(zip_file) = i /\ quantized = i + 1
        /\ shown # <<>> =>
              /\ err = ""
              /\ Len(shown[1].body) = Len(all_offsets)

C5_Witness ==
    /\ gen_mode = Individual /\ err = "EncodingError"
    /\ i >= 1 /\ i + 1 < Len(all_offsets)

\* C6: the offset field of an entry name is the offset in fixed-point notation
\* with 15 fractional digits, trailing zeros and then a trailing point
\* stripped: it never ends in "." nor in a "0" after a point, and an
\* integer-valued offset is its integer digits, its own zeros kept; the name
\* is "{i}_{baseFrequency}Hz_plus_{offset}Hz_{sampleRate}SR.{format}".
C6_NameAndOffsetField ==
    /\ fnOp = "clean_off" =>
          /\ fnText # <<>>
          /\ fnText[Len(fnText)] # "."
          /\ (\E k \in DOMAIN fnText : fnText[k] = ".") => fnText[Len(fnText)] # "0"
          /\ \/ \E z \in 0..FmtDigits : fnText \o Zeros(z) = Fixed15(fnArg)
             \/ fnText \o <<".">> \o Zeros(FmtDigits) = Fixed15(fnArg)
          /\ fnArg % Unit = 0 =>
                fnText = (IF fnArg < 0 THEN <<"-">> ELSE <<>>) \o Digits(Abs(fnArg) \div Unit)
          /\ fnArg = Unit => fnText = <<"1">>
          /\ fnArg = 10 * Unit => fnText = <<"1", "0">>
          /\ fnArg = 100 * Unit => fnText = <<"1", "0", "0">>
          /\ fnArg = 0 => fnText = <<"0">>
          /\ fnArg = Unit \div 10 => fnText = <<"0", ".", "1">>
    /\ fnOp = "fname" =>
          /\ IsPrefix(Digits(fnCtx[1].seq) \o <<"_">>, fnText)
          /\ IsSuffix(<<"H", "z", "_">> \o Digits(fnCtx[1].rate) \o <<"S", "R", ".">>
                      \o FormatChars(fnCtx[1].fmt), fnText)
          /\ (/\ fnCtx[1] = [seq |-> 3, base |-> 440 * Unit, rate |-> 96000, fmt |-> "wav"]
              /\ fnArg = Unit \div 10) =>
                fnText = <<"3", "_", "4", "4", "0", ".", "0", "H", "z", "_", "p", "l",
                           "u", "s", "_", "0", ".", "1", "H", "z", "_", "9", "6", "0",
                           "0", "0", "S", "R", ".", "w", "a", "v">>
          /\ fnArg = 100 * Unit =>
                \E pre, post \in 1..Len(fnText) :
                    SubSeq(fnText, pre, post) =
                        <<"_", "p", "l", "u", "s", "_", "1", "0", "0", "H", "z", "_">>

C6_Witness ==
    /\ fnOp = "clean_off" /\ fnArg = 100 * Unit /\ fnText = <<"1", "0", "0">>

\* The request of the scenario: 100 Hz, 44100 Hz, 1 s, depth 1, no literals,
\* reference channel, individual files, wav.
C7_Scenario ==
    /\ pc = "done" /\ shown # <<>>
    /\ base_freq = 100 * Unit /\ sample_rate = 44100 /\ duration = 1
    /\ decimals = 1 /\ raw_ints = <<>> /\ include_ref
    /\ gen_mode = Individual /\ file_format = "wav"

\* C7 as stated: the scenario's archive holds exactly one entry, named
\* "1_100Hz_plus_0.1Hz_44100SR.wav".
C7_AsStated ==
    C7_Scenario =>
        /\ Len(shown[1].body) = 1
        /\ shown[1].body[1].name =
              <<"1", "_", "1", "0", "0", "H", "z", "_", "p", "l", "u", "s", "_", "0",
                ".", "1", "H", "z", "_", "4", "4", "1", "0", "0", "S", "R", ".", "w", "a", "v">>

\* C7 amended: the scenario's archive holds exactly one entry, named
\* "1_100.0Hz_plus_0.1Hz_44100SR.wav": the base frequency is a float and
\* prints with its fractional digit.
C7_FloatBaseInName ==
    C7_Scenario =>
        /\ Len(shown[1].body) = 1
        /\ shown[1].body[1].name =
              <<"1", "_", "1", "0", "0", ".", "0", "H", "z", "_", "p", "l", "u", "s", "_",
                "0", ".", "1", "H", "z", "_", "4", "4", "1", "0", "0", "S", "R", ".", "w",
                "a", "v">>

C7_Witness == C7_Scenario /\ shown[1].kind = "zip" /\ generated = 1

\* C8: every stereo frame has exactly 2 channels of the same length, the
\* sample count sample_rate * duration > 0; the left channel is the primary
\* signal (the tone at base_freq + offset, or the normalized mix); the right
\* channel is the tone at base_freq with the reference on and the left
\* channel, sample for sample, with it off.
C8_StereoFrame ==
    final # <<>> =>
        /\ \A j \in DOMAIN final : Len(final[j]) = 2
        /\ Len(final) = WinLen
        /\ nsamples = sample_rate * duration /\ nsamples > 0
        /\ segment # <<>> => (segment[1].channels = 2 /\ segment[1].nframes = nsamples)
        /\ Column(final, 1) =
              IF gen_mode = Sweep THEN mixed
              ELSE Tone(base_freq + all_offsets[LastUnit])
        /\ Column(final, 2) =
              IF include_ref THEN Tone(base_freq) ELSE Column(final, 1)

C8_Witness ==
    /\ final # <<>> /\ gen_mode = Individual /\ include_ref
    /\ LastUnit = 2 /\ Column(final, 1) # Column(final, 2)

\* C9 as stated: a sample s in [-1, 1] is cast to the integer nearest to
\* s * 32767, within [-32767, 32767].
C9_AsStated ==
    fnOp = "quantize" =>
        /\ 2 * Abs(fnNum * Scale - fnArg * PcmMax) <= Scale
        /\ fnNum \in -PcmMax..PcmMax

\* C9 amended: a sample s in [-1, 1] is cast to s * 32767 with its fraction
\* dropped (truncated toward zero), which lies in [-32767, 32767]: there is no
\* overflow or wrap-around.
C9_TruncatesTowardZero ==
    fnOp = "quantize" =>
        /\ fnNum \in -PcmMax..PcmMax
        /\ Abs(fnNum) * Scale <= Abs(fnArg) * PcmMax
        /\ Abs(fnArg) * PcmMax < (Abs(fnNum) + 1) * Scale
        /\ fnNum * fnArg >= 0

C9_Witness ==
    /\ fnOp = "quantize" /\ fnArg = Scale - 1 /\ fnNum = PcmMax - 4

\* The sum of the tones of all offsets, each occurrence counted.
RECURSIVE SumTones(_, _)
SumTones(base, offs) ==
    IF offs = <<>> THEN ZerosLike
    ELSE AddTone(SumTones(base, SubSeq(offs, 1, Len(offs) - 1)), base, offs[Len(offs)])

\* C10: a sweep run divides by the peak exactly once, after the tone of every
\* offset (each occurrence counted) is in the mixed buffer and before the
\* frame's single cast, and divides the mixed signal only, not the reference
\* channel; an individual run never divides, and casts each frame once.
C10_SingleNormalization ==
    /\ gen_mode = Individual =>
          /\ normalized = 0 /\ added = 0 /\ mixed = <<>>
          /\ quantized = LastUnit \/ (pc = "error" /\ err = "ValueError")
    /\ gen_mode = Sweep =>
          /\ normalized <= 1 /\ quantized <= 1
          /\ normalized = 1 =>
                /\ added = Len(all_offsets)
                /\ mixed = Normalize(SumTones(base_freq, all_offsets))
          /\ (normalized = 0 /\ mixed # <<>>) =>
                mixed = SumTones(base_freq, SubSeq(all_offsets, 1, i))
          /\ final # <<>> => normalized = 1
          /\ (final # <<>> /\ include_ref) => Column(final, 2) = Tone(base_freq)
          /\ quantized = 1 <=> audio_data # <<>>
          /\ audio_data # <<>> =>
                (final # <<>> /\ \E nanq \in NanCasts : audio_data = AsInt16(final, nanq))
          /\ pc = "done" => (normalized = 1 /\ quantized = 1)

C10_Witness ==
    /\ pc = "done" /\ gen_mode = Sweep /\ include_ref
    /\ HasRepeat(all_offsets) /\ normalized = 1 /\ quantized = 1
    /\ PeakAbs(mixed) = Scale /\ PeakAbs(Tone(base_freq)) # Scale

=============================================================================
